---- MODULE Spec2Model ----
(***************************************************************************)
(* Math Agent API (Agentic-RAG): the /ask pipeline (input guardrail,       *)
(* retrieval routing, answer generation, output guardrail) and the         *)
(* feedback pipeline (/feedback, /improve-solution, /learning-metrics)     *)
(* of backend/main.py and backend/dspyfeedback.py.                         *)
(*                                                                         *)
(* Text is a sequence of characters, each character a one-symbol string;   *)
(* the emoji of the fixed messages are single symbols named by code point. *)
(* Scores are integers in millionths, confidences in tenths, averages in   *)
(* hundredths.                                                             *)
(***************************************************************************)
EXTENDS Integers, Sequences, FiniteSets, TLC

VARIABLES
    dspy_integration,   \* main.py: DSPY_INTEGRATION_AVAILABLE and enhanced_solver
    dspy_available,     \* EnhancedMathSolver.dspy_available
    feedback,           \* table feedback (raw feedback rows, in insertion order)
    dspy_feedback,      \* table dspy_feedback (improvement events, in insertion order)
    feedback_examples,  \* EnhancedMathSolver.feedback_examples (in-memory buffer)
    pc,                 \* where the request being handled stands ("idle": none)
    req,                \* the locals of the request being handled (kept after it ends)
    calls,              \* the capability calls that request has made, in order
    resp                \* what the last finished request answered

vars == <<dspy_integration, dspy_available, feedback, dspy_feedback,
          feedback_examples, pc, req, calls, resp>>

-----------------------------------------------------------------------------
(* Characters and the str methods the code uses. *)

UpperLetters == <<"A", "B", "C", "D", "E", "F", "G", "H", "I", "J", "K", "L", "M",
                  "N", "O", "P", "Q", "R", "S", "T", "U", "V", "W", "X", "Y", "Z">>

LowerLetters == <<"a", "b", "c", "d", "e", "f", "g", "h", "i", "j", "k", "l", "m",
                  "n", "o", "p", "q", "r", "s", "t", "u", "v", "w", "x", "y", "z">>

Digits == {"0", "1", "2", "3", "4", "5", "6", "7", "8", "9"}

Whitespace == {" ", "\n", "\t", "\r"}

UpperSet == {UpperLetters[i] : i \in DOMAIN UpperLetters}

ToLower ==
    [c \in UpperSet |->
        LowerLetters[CHOOSE i \in DOMAIN UpperLetters : UpperLetters[i] = c]]

\* str.lower() on one character
LowerChar(c) == IF c \in UpperSet THEN ToLower[c] ELSE c

\* str.lower()
Lower(t) == [i \in DOMAIN t |-> LowerChar(t[i])]

\* pat in t
Contains(t, pat) ==
    \E i \in 0..(Len(t) - Len(pat)) : \A j \in DOMAIN pat : t[i + j] = pat[j]

\* str.strip()
Strip(t) ==
    LET keep == {i \in DOMAIN t : t[i] \notin Whitespace}
    IN  IF keep = {} THEN <<>>
        ELSE SubSeq(t, CHOOSE i \in keep : \A j \in keep : i <= j,
                       CHOOSE i \in keep : \A j \in keep : j <= i)

-----------------------------------------------------------------------------
(* Guardrails (main.py). *)

MATH_KEYWORDS == <<
    <<"s", "o", "l", "v", "e">>,
    <<"i", "n", "t", "e", "g", "r", "a", "t", "e">>,
    <<"d", "i", "f", "f", "e", "r", "e", "n", "t", "i", "a", "t", "e">>,
    <<"d", "e", "r", "i", "v", "a", "t", "i", "v", "e">>,
    <<"l", "i", "m", "i", "t">>,
    <<"r", "o", "o", "t", "s">>,
    <<"e", "q", "u", "a", "t", "i", "o", "n">>,
    <<"m", "a", "t", "r", "i", "x">>,
    <<"t", "h", "e", "o", "r", "e", "m">>,
    <<"p", "r", "o", "v", "e">>,
    <<"e", "v", "a", "l", "u", "a", "t", "e">>,
    <<"s", "i", "m", "p", "l", "i", "f", "y">>,
    <<"l", "a", "p", "l", "a", "c", "e">>,
    <<"f", "o", "u", "r", "i", "e", "r">>,
    <<"s", "u", "m">>,
    <<"p", "r", "o", "d", "u", "c", "t">>,
    <<"g", "e", "o", "m", "e", "t", "r", "y">>,
    <<"t", "r", "i", "g", "o", "n", "o", "m", "e", "t", "r", "y">>,
    <<"p", "r", "o", "b", "a", "b", "i", "l", "i", "t", "y">>,
    <<"s", "t", "a", "t", "s">>,
    <<"s", "t", "a", "t", "i", "s", "t", "i", "c", "a", "l">>,
    <<"i", "n", "t", "e", "g", "r", "a", "l">>,
    <<"s", "u", "m">>,
    <<"f", "a", "c", "t", "o", "r", "i", "z", "e">>
>>

\* input_guardrail with the keyword test made on the query as typed
input_guardrail_as_typed(query) ==
    \/ \E i \in DOMAIN query : query[i] \in Digits
    \/ \E k \in DOMAIN MATH_KEYWORDS : Contains(query, MATH_KEYWORDS[k])

\* input_guardrail(query)
input_guardrail(query) ==
    LET q == Lower(query)
    IN  \/ \E i \in DOMAIN q : q[i] \in Digits
        \/ \E k \in DOMAIN MATH_KEYWORDS : Contains(q, MATH_KEYWORDS[k])

\* "⏳ This question could not be answered from the knowledge base or web search."
UNANSWERABLE ==
    <<"U+23F3", " ", "T", "h", "i", "s", " ", "q", "u", "e", "s", "t", "i", "o", "n", " ", "c", "o", "u", "l", "d", " ", "n", "o", "t", " ", "b", "e", " ", "a", "n", "s", "w", "e", "r", "e", "d", " ", "f", "r", "o", "m", " ", "t", "h", "e", " ", "k", "n", "o", "w", "l", "e", "d", "g", "e", " ", "b", "a", "s", "e", " ", "o", "r", " ", "w", "e", "b", " ", "s", "e", "a", "r", "c", "h", ".">>

\* "⚠️ This system only returns mathematics-related educational answers."
MATH_ONLY ==
    <<"U+26A0", "U+FE0F", " ", "T", "h", "i", "s", " ", "s", "y", "s", "t", "e", "m", " ", "o", "n", "l", "y", " ", "r", "e", "t", "u", "r", "n", "s", " ", "m", "a", "t", "h", "e", "m", "a", "t", "i", "c", "s", "-", "r", "e", "l", "a", "t", "e", "d", " ", "e", "d", "u", "c", "a", "t", "i", "o", "n", "a", "l", " ", "a", "n", "s", "w", "e", "r", "s", ".">>

banned == <<
    <<"j", "o", "k", "e">>,
    <<"l", "o", "v", "e", " ", "l", "e", "t", "t", "e", "r">>,
    <<"s", "e", "x">>,
    <<"r", "o", "m", "a", "n", "c", "e">>,
    <<"p", "o", "l", "i", "t", "i", "c", "s">>
>>

\* output_guardrail_text testing the banned list against the text as typed
output_guardrail_text_as_typed(text) ==
    IF text = <<>> \/ Len(Strip(text)) = 0 THEN UNANSWERABLE
    ELSE IF \E b \in DOMAIN banned : Contains(text, banned[b]) THEN MATH_ONLY
    ELSE text

\* output_guardrail_text quoting the refused text after the refusal
output_guardrail_text_quoting(text) ==
    LET low == Lower(text)
    IN  IF text = <<>> \/ Len(Strip(text)) = 0 THEN UNANSWERABLE
        ELSE IF \E b \in DOMAIN banned : Contains(low, banned[b]) THEN MATH_ONLY \o text
        ELSE text

\* output_guardrail_text(text)
output_guardrail_text(text) ==
    LET low == Lower(text)
    IN  IF text = <<>> \/ Len(Strip(text)) = 0 THEN UNANSWERABLE
        ELSE IF \E b \in DOMAIN banned : Contains(low, banned[b]) THEN MATH_ONLY
        ELSE text

-----------------------------------------------------------------------------
(* Free-text parsing (dspyfeedback.py, EnhancedMathSolver). *)

RECURSIVE Split(_, _)
\* str.split(sep) for a one-character separator
Split(t, sep) ==
    IF \E i \in DOMAIN t : t[i] = sep
    THEN LET k == CHOOSE i \in DOMAIN t : t[i] = sep /\ \A j \in 1..(i - 1) : t[j] # sep
         IN  <<SubSeq(t, 1, k - 1)>> \o Split(SubSeq(t, k + 1, Len(t)), sep)
    ELSE <<t>>

step_indicators == <<
    <<"s", "t", "e", "p">>,
    <<"f", "i", "r", "s", "t">>,
    <<"n", "e", "x", "t">>,
    <<"t", "h", "e", "n">>,
    <<"f", "i", "n", "a", "l", "l", "y">>
>>

answer_patterns == <<
    <<"f", "i", "n", "a", "l", " ", "a", "n", "s", "w", "e", "r">>,
    <<"a", "n", "s", "w", "e", "r", ":">>,
    <<"r", "e", "s", "u", "l", "t", ":">>,
    <<"t", "h", "e", "r", "e", "f", "o", "r", "e">>
>>

\* "Answer not clearly stated"
ANSWER_NOT_STATED ==
    <<"A", "n", "s", "w", "e", "r", " ", "n", "o", "t", " ", "c", "l", "e", "a", "r", "l", "y", " ", "s", "t", "a", "t", "e", "d">>

ContainsAny(t, pats) == \E p \in DOMAIN pats : Contains(t, pats[p])

RECURSIVE ParseLines(_, _, _)
\* the loop of _parse_solution_steps over the remaining lines
ParseLines(lines, steps, current_step) ==
    IF lines = <<>>
    THEN IF current_step # <<>> THEN Append(steps, Strip(current_step)) ELSE steps
    ELSE LET line == Strip(Head(lines))
         IN  IF line = <<>> THEN ParseLines(Tail(lines), steps, current_step)
             ELSE IF ContainsAny(Lower(line), step_indicators)
             THEN ParseLines(Tail(lines),
                             IF current_step # <<>>
                             THEN Append(steps, Strip(current_step)) ELSE steps,
                             line)
             ELSE ParseLines(Tail(lines), steps, current_step \o <<" ">> \o line)

\* _parse_solution_steps making a step of every non-blank line
_parse_solution_steps_per_line(solution_text) ==
    LET lines == Split(solution_text, "\n")
        steps == SelectSeq([i \in DOMAIN lines |-> Strip(lines[i])],
                           LAMBDA line : line # <<>>)
    IN  IF steps # <<>> THEN steps ELSE <<solution_text>>

\* EnhancedMathSolver._parse_solution_steps
_parse_solution_steps(solution_text) ==
    LET steps == ParseLines(Split(solution_text, "\n"), <<>>, <<>>)
    IN  IF steps # <<>> THEN steps ELSE <<solution_text>>

\* EnhancedMathSolver._extract_final_answer
_extract_final_answer(solution_text) ==
    LET lines == Split(solution_text, "\n")
        hits == {i \in DOMAIN lines : ContainsAny(Lower(lines[i]), answer_patterns)}
        meaningful == {i \in DOMAIN lines : Strip(lines[i]) # <<>>}
    IN  IF hits # {}
        THEN Strip(lines[CHOOSE i \in hits : \A j \in hits : i <= j])
        ELSE IF meaningful # {}
        THEN Strip(lines[CHOOSE i \in meaningful : \A j \in meaningful : j <= i])
        ELSE ANSWER_NOT_STATED

-----------------------------------------------------------------------------
(* What the completion backends can answer.  A call outcome is a record     *)
(* [ok, text]: the returned content when ok, str(e) of the raised exception *)
(* otherwise.                                                               *)

\* "Step 1: add\nThen sum\nAnswer: 4"
T_STEPS ==
    <<"S", "t", "e", "p", " ", "1", ":", " ", "a", "d", "d", "\n", "T", "h", "e", "n", " ", "s", "u", "m", "\n", "A", "n", "s", "w", "e", "r", ":", " ", "4">>

\* "x = 2"
T_PLAIN ==
    <<"x", " ", "=", " ", "2">>

\* ""
T_EMPTY == <<>>

\* " \n"
T_BLANK ==
    <<" ", "\n">>

\* "Step 1: a Joke"
T_JOKE ==
    <<"S", "t", "e", "p", " ", "1", ":", " ", "a", " ", "J", "o", "k", "e">>

\* '{"steps": ["add 2 "], "final_answer": "4"}'
T_JSON ==
    <<"{", "\"", "s", "t", "e", "p", "s", "\"", ":", " ", "[", "\"", "a", "d", "d", " ", "2", " ", "\"", "]", ",", " ", "\"", "f", "i", "n", "a", "l", "_", "a", "n", "s", "w", "e", "r", "\"", ":", " ", "\"", "4", "\"", "}">>

\* '{"steps": [], "final_answer": ""}'
T_JSON_EMPTY ==
    <<"{", "\"", "s", "t", "e", "p", "s", "\"", ":", " ", "[", "]", ",", " ", "\"", "f", "i", "n", "a", "l", "_", "a", "n", "s", "w", "e", "r", "\"", ":", " ", "\"", "\"", "}">>

\* '{"steps": "Sex"}'
T_JSON_STR ==
    <<"{", "\"", "s", "t", "e", "p", "s", "\"", ":", " ", "\"", "S", "e", "x", "\"", "}">>

\* '["x"]'
T_JSON_LIST ==
    <<"[", "\"", "x", "\"", "]">>

\* "timeout"
E_TIMEOUT ==
    <<"t", "i", "m", "e", "o", "u", "t">>

\* "host essex down"
E_HOST ==
    <<"h", "o", "s", "t", " ", "e", "s", "s", "e", "x", " ", "d", "o", "w", "n">>

Completions ==
    {T_STEPS, T_PLAIN, T_EMPTY, T_BLANK, T_JOKE, T_JSON, T_JSON_EMPTY, T_JSON_STR,
     T_JSON_LIST}

Causes == {E_TIMEOUT, E_HOST}

\* outcomes of openai_client.chat.completions.create(...).choices[0].message.content
CompletionOutcomes ==
    [ok : {TRUE}, text : Completions] \cup [ok : {FALSE}, text : Causes]

\* outcomes of self.dspy_solver(...).solution
DspyOutcomes ==
    [ok : {TRUE}, text : Completions] \cup [ok : {FALSE}, text : {E_TIMEOUT}]

\* json.loads on the completions above: the parsed value of each text that is
\* JSON, as [is_dict, has_steps, steps_is_list, steps, has_final, final]; steps
\* holds the items of a list, or the one value of a non-list
JsonTable == <<
    [text |-> T_JSON,
     value |-> [is_dict |-> TRUE, has_steps |-> TRUE, steps_is_list |-> TRUE,
                steps |-> <<<<"a", "d", "d", " ", "2", " ">>>>, has_final |-> TRUE, final |-> <<"4">>]],
    [text |-> T_JSON_EMPTY,
     value |-> [is_dict |-> TRUE, has_steps |-> TRUE, steps_is_list |-> TRUE,
                steps |-> <<>>, has_final |-> TRUE, final |-> <<>>]],
    [text |-> T_JSON_STR,
     value |-> [is_dict |-> TRUE, has_steps |-> TRUE, steps_is_list |-> FALSE,
                steps |-> <<<<"S", "e", "x">>>>, has_final |-> FALSE, final |-> <<>>]],
    [text |-> T_JSON_LIST,
     value |-> [is_dict |-> FALSE, has_steps |-> FALSE, steps_is_list |-> FALSE,
                steps |-> <<>>, has_final |-> FALSE, final |-> <<>>]]
>>

\* json.loads(text) succeeds
JsonValid(text) == \E i \in DOMAIN JsonTable : JsonTable[i].text = text

\* json.loads(text)
JsonLoads(text) ==
    JsonTable[CHOOSE i \in DOMAIN JsonTable : JsonTable[i].text = text].value

\* an entry of calls: the capability called, whether it returned, and str(e)
\* of what it raised
Call(name, ok, err) == [name |-> name, ok |-> ok, err |-> err]

CallOf(name, outcome) ==
    Call(name, outcome.ok, IF outcome.ok THEN <<>> ELSE outcome.text)

\* the outcome slot of a call that is not made
NotCalled == [ok |-> FALSE, text |-> <<>>]

\* the structured call is made only when DSPy is available, and the completion
\* call only when the structured call was not made or raised
SolverCalls == IF dspy_available THEN DspyOutcomes ELSE {NotCalled}

CompletionCallsAfter(d) ==
    IF dspy_available /\ d.ok THEN {NotCalled} ELSE CompletionOutcomes

-----------------------------------------------------------------------------
(* Generation (main.py, dspyfeedback.py).  Every result carries, beside the *)
(* keys of the returned dict, the capability calls made to compute it.      *)

\* "Error: "
ERROR_PREFIX ==
    <<"E", "r", "r", "o", "r", ":", " ">>

\* "Could not generate solution"
COULD_NOT_GENERATE ==
    <<"C", "o", "u", "l", "d", " ", "n", "o", "t", " ", "g", "e", "n", "e", "r", "a", "t", "e", " ", "s", "o", "l", "u", "t", "i", "o", "n">>

\* "Error connecting to AI model. Please check your API configuration."
ERROR_CONNECTING ==
    <<"E", "r", "r", "o", "r", " ", "c", "o", "n", "n", "e", "c", "t", "i", "n", "g", " ", "t", "o", " ", "A", "I", " ", "m", "o", "d", "e", "l", ".", " ", "P", "l", "e", "a", "s", "e", " ", "c", "h", "e", "c", "k", " ", "y", "o", "u", "r", " ", "A", "P", "I", " ", "c", "o", "n", "f", "i", "g", "u", "r", "a", "t", "i", "o", "n", ".">>

\* "Service temporarily unavailable: "
SERVICE_UNAVAILABLE ==
    <<"S", "e", "r", "v", "i", "c", "e", " ", "t", "e", "m", "p", "o", "r", "a", "r", "i", "l", "y", " ", "u", "n", "a", "v", "a", "i", "l", "a", "b", "l", "e", ":", " ">>

\* _solve_with_openai reporting a failed call under the method of a served one
_solve_with_openai_unmarked(o) ==
    [steps |-> <<ERROR_PREFIX \o o.text>>,
     final_answer |-> COULD_NOT_GENERATE,
     raw_solution |-> <<>>,
     method |-> "openai_fallback",
     confidence |-> 7,
     calls |-> <<CallOf("chat_completion", o)>>]

\* EnhancedMathSolver._solve_with_openai
_solve_with_openai(o) ==
    IF o.ok
    THEN LET solution_text == Strip(o.text)
         IN  [steps |-> _parse_solution_steps(solution_text),
              final_answer |-> _extract_final_answer(solution_text),
              raw_solution |-> solution_text,
              method |-> "openai_fallback",
              confidence |-> 7,
              calls |-> <<CallOf("chat_completion", o)>>]
    ELSE [steps |-> <<ERROR_PREFIX \o o.text>>,
          final_answer |-> COULD_NOT_GENERATE,
          raw_solution |-> <<>>,
          method |-> "error",
          confidence |-> 0,
          calls |-> <<CallOf("chat_completion", o)>>]

\* solve_with_dspy answering from the DSPy branch even when the call raised
solve_with_dspy_no_fallback(d, o) ==
    IF dspy_available
    THEN [steps |-> <<ERROR_PREFIX \o d.text>>,
          final_answer |-> COULD_NOT_GENERATE,
          raw_solution |-> <<>>,
          method |-> "dspy",
          confidence |-> 0,
          calls |-> <<CallOf("dspy_solver", d)>>]
    ELSE _solve_with_openai(o)

\* EnhancedMathSolver.solve_with_dspy
solve_with_dspy(d, o) ==
    IF dspy_available /\ d.ok
    THEN [steps |-> _parse_solution_steps(d.text),
          final_answer |-> _extract_final_answer(d.text),
          raw_solution |-> d.text,
          method |-> "dspy",
          confidence |-> 8,
          calls |-> <<CallOf("dspy_solver", d)>>]
    ELSE LET r == _solve_with_openai(o)
         IN  [r EXCEPT !.calls = (IF dspy_available THEN <<CallOf("dspy_solver", d)>> ELSE <<>>) \o @]

\* solve_with_enhanced_system
solve_with_enhanced_system(d, o) ==
    LET result == solve_with_dspy(d, o)
    IN  [steps |-> result.steps,
         final_answer |-> result.final_answer,
         confidence |-> result.confidence,
         enhanced |-> TRUE,
         method |-> result.method,
         calls |-> result.calls]

\* generate_step_by_step_standard
generate_step_by_step_standard(o) ==
    IF ~o.ok
    THEN [steps |-> <<ERROR_CONNECTING>>,
          final_answer |-> SERVICE_UNAVAILABLE \o o.text,
          enhanced |-> FALSE,
          method |-> "error",
          confidence |-> 0,
          calls |-> <<CallOf("chat_completion", o)>>]
    ELSE LET text == Strip(o.text)
         IN  IF JsonValid(text) /\ JsonLoads(text).is_dict
             THEN LET payload == JsonLoads(text)
                  IN  [steps |-> [i \in DOMAIN payload.steps |->
                                     IF payload.steps_is_list
                                     THEN Strip(payload.steps[i]) ELSE payload.steps[i]],
                       final_answer |-> Strip(payload.final),
                       enhanced |-> FALSE,
                       method |-> "standard",
                       confidence |-> 6,
                       calls |-> <<CallOf("chat_completion", o)>>]
             ELSE LET safe_text == output_guardrail_text(text)
                  IN  [steps |-> <<safe_text>>,
                       final_answer |-> safe_text,
                       enhanced |-> FALSE,
                       method |-> "standard_fallback",
                       confidence |-> 4,
                       calls |-> <<CallOf("chat_completion", o)>>]

\* generate_step_by_step_enhanced; solve_with_enhanced_system returns a dict
\* for every outcome of its calls, so the except branch is not taken
generate_step_by_step_enhanced(d, o) ==
    IF ~dspy_integration
    THEN generate_step_by_step_standard(o)
    ELSE solve_with_enhanced_system(d, o)

-----------------------------------------------------------------------------
(* Retrieval: the vector search and the web search (main.py, search_utils.py). *)

KB_MATCH_THRESHOLD == 400000

\* dict.get(key, default) on an optional entry: <<>> when the key is absent,
\* <<value>> when present
DictGet(entry, default) == IF entry = <<>> THEN default ELSE entry[1]

\* "Knowledge Base"
S_KB ==
    <<"K", "n", "o", "w", "l", "e", "d", "g", "e", " ", "B", "a", "s", "e">>

\* "web"
S_WEB ==
    <<"w", "e", "b">>

\* "fallback"
S_FALLBACK ==
    <<"f", "a", "l", "l", "b", "a", "c", "k">>

\* "Find d/dx(x^2)"
P_PROBLEM ==
    <<"F", "i", "n", "d", " ", "d", "/", "d", "x", "(", "x", "^", "2", ")">>

\* "2x"
P_SOLUTION ==
    <<"2", "x">>

\* payloads of a stored point; has_payload FALSE is payload None
Payloads ==
    [has_payload : {TRUE},
     source : {<<>>, <<S_KB>>, <<S_WEB>>},
     problem : {<<T_EMPTY>>, <<P_PROBLEM>>},
     solution : {<<>>, <<P_SOLUTION>>}]
    \cup
    [has_payload : {FALSE}, source : {<<>>}, problem : {<<>>}, solution : {<<>>}]

Scores == {399999, 400000, 650000}

\* outcomes of search_qdrant(question, top_k=1)
KbOutcomes ==
    {[raised |-> TRUE, results |-> <<>>], [raised |-> FALSE, results |-> <<>>]}
    \cup
    {[raised |-> FALSE, results |-> <<[score |-> s, payload |-> p]>>] :
        s \in Scores, p \in Payloads}

\* "❌ This question could not be answered using web search."
WEB_NO_RESULTS ==
    <<"U+274C", " ", "T", "h", "i", "s", " ", "q", "u", "e", "s", "t", "i", "o", "n", " ", "c", "o", "u", "l", "d", " ", "n", "o", "t", " ", "b", "e", " ", "a", "n", "s", "w", "e", "r", "e", "d", " ", "u", "s", "i", "n", "g", " ", "w", "e", "b", " ", "s", "e", "a", "r", "c", "h", ".">>

\* "⚠️ Failed to generate a response."
WEB_FAILED ==
    <<"U+26A0", "U+FE0F", " ", "F", "a", "i", "l", "e", "d", " ", "t", "o", " ", "g", "e", "n", "e", "r", "a", "t", "e", " ", "a", " ", "r", "e", "s", "p", "o", "n", "s", "e", ".">>

\* "d/dx x^n = n x^(n-1)"
W_SNIPPET ==
    <<"d", "/", "d", "x", " ", "x", "^", "n", " ", "=", " ", "n", " ", "x", "^", "(", "n", "-", "1", ")">>

\* "By the power rule the answer is 2x"
W_ANSWER ==
    <<"B", "y", " ", "t", "h", "e", " ", "p", "o", "w", "e", "r", " ", "r", "u", "l", "e", " ", "t", "h", "e", " ", "a", "n", "s", "w", "e", "r", " ", "i", "s", " ", "2", "x">>

\* outcomes of requests.post(TAVILY_URL, ...): the request raises, answers a
\* status other than 200, or answers 200 with the "content" of each result
\* (<<>> for a null content)
TavilyOutcomes ==
    {[kind |-> "exception", contents |-> <<>>],
     [kind |-> "status", contents |-> <<>>],
     [kind |-> "ok", contents |-> <<>>],
     [kind |-> "ok", contents |-> << <<W_SNIPPET>> >>],
     [kind |-> "ok", contents |-> << <<>> >>]}

\* outcomes of the completion call of search_and_generate_answer
WebCompletionOutcomes ==
    {[ok |-> TRUE, text |-> W_ANSWER], [ok |-> FALSE, text |-> E_TIMEOUT]}

\* tavily_search
tavily_search(tv) == IF tv.kind = "ok" THEN tv.contents ELSE <<>>

\* search_and_generate_answer: [raised, text, calls]; "\n".join raises on a
\* null content, outside any try
search_and_generate_answer(tv, wo) ==
    LET search_results == tavily_search(tv)
        searched == Call("tavily_search", tv.kind = "ok", <<>>)
    IN  IF search_results = <<>>
        THEN [raised |-> FALSE, text |-> WEB_NO_RESULTS, calls |-> <<searched>>]
        ELSE IF \E i \in DOMAIN search_results : search_results[i] = <<>>
        THEN [raised |-> TRUE, text |-> <<>>, calls |-> <<searched>>]
        ELSE [raised |-> FALSE,
              text |-> IF wo.ok THEN wo.text ELSE WEB_FAILED,
              calls |-> <<searched, CallOf("web_completion", wo)>>]

-----------------------------------------------------------------------------
(* POST /ask (main.py, ask_question), in the order of its statements. *)

\* "2+2"
Q_DIGIT ==
    <<"2", "+", "2">>

\* " Sum of x and y\n"
Q_KEYWORD ==
    <<" ", "S", "u", "m", " ", "o", "f", " ", "x", " ", "a", "n", "d", " ", "y", "\n">>

\* "hello there"
Q_CHAT ==
    <<"h", "e", "l", "l", "o", " ", "t", "h", "e", "r", "e">>

\* "  "
Q_BLANK ==
    <<" ", " ">>

AskQuestions == {Q_DIGIT, Q_KEYWORD, Q_CHAT, Q_BLANK}

NoRequest == [op |-> "none"]

NoResponse == [endpoint |-> "none", status |-> 0]

\* ask_question searching before it has tested the guardrail
AskGuardUnchecked(q) ==
    /\ pc = "idle"
    /\ pc' = "ask_search"
    /\ req' = [op |-> "ask", question |-> Strip(q)]
    /\ resp' = NoResponse
    /\ calls' = <<>>
    /\ UNCHANGED <<dspy_integration, dspy_available, feedback, dspy_feedback,
                   feedback_examples>>

\* lines 165-169: trim, input guardrail, 400
AskGuard(q) ==
    /\ pc = "idle"
    /\ LET question == Strip(q)
       IN  IF ~input_guardrail(question)
           THEN /\ pc' = "idle"
                /\ req' = [op |-> "ask", question |-> question]
                /\ resp' = [endpoint |-> "ask", status |-> 400]
           ELSE /\ pc' = "ask_search"
                /\ req' = [op |-> "ask", question |-> question]
                /\ resp' = NoResponse
    /\ calls' = <<>>
    /\ UNCHANGED <<dspy_integration, dspy_available, feedback, dspy_feedback,
                   feedback_examples>>

\* lines 179-193: source and context from the search results
KbRoute(kb_results) ==
    IF kb_results # <<>> /\ kb_results[1].score >= KB_MATCH_THRESHOLD
    THEN LET payload == kb_results[1].payload
             problem == DictGet(payload.problem, <<>>)
         IN  [src |-> DictGet(payload.source, S_KB),
              context |-> IF problem # <<>> THEN problem
                          ELSE DictGet(payload.solution, <<>>)]
    ELSE [src |-> S_WEB, context |-> <<>>]

\* ask_question without the try around search_qdrant: a failed search ends
\* the request
AskSearchPropagating(kb) ==
    /\ pc = "ask_search"
    /\ LET kb_results == IF kb.raised THEN <<>> ELSE kb.results
           route == KbRoute(kb_results)
       IN  /\ req' = [op |-> "ask", question |-> req.question,
                      kb_results |-> kb_results,
                      src |-> route.src, context |-> route.context]
           /\ pc' = IF kb.raised THEN "idle"
                    ELSE IF route.src = S_WEB THEN "ask_web" ELSE "ask_generate"
           /\ resp' = IF kb.raised THEN [endpoint |-> "ask", status |-> 500] ELSE resp
    /\ calls' = Append(calls, Call("search_qdrant", ~kb.raised, <<>>))
    /\ UNCHANGED <<dspy_integration, dspy_available, feedback, dspy_feedback,
                   feedback_examples>>

\* lines 171-193: vector search (a failure is no results), source and context
AskSearch(kb) ==
    /\ pc = "ask_search"
    /\ LET kb_results == IF kb.raised THEN <<>> ELSE kb.results
           route == KbRoute(kb_results)
       IN  /\ req' = [op |-> "ask", question |-> req.question,
                      kb_results |-> kb_results,
                      src |-> route.src, context |-> route.context]
           /\ pc' = IF route.src = S_WEB THEN "ask_web" ELSE "ask_generate"
    /\ calls' = Append(calls, Call("search_qdrant", ~kb.raised, <<>>))
    /\ UNCHANGED <<dspy_integration, dspy_available, feedback, dspy_feedback,
                   feedback_examples, resp>>

\* lines 196-203: web context when the source is "web"
AskWeb(tv, wo) ==
    /\ pc = "ask_web"
    /\ LET web == search_and_generate_answer(tv, wo)
       IN  /\ req' = [req EXCEPT !.context = IF web.raised THEN <<>> ELSE web.text]
           /\ calls' = calls \o <<Call("search_and_generate_answer", ~web.raised, <<>>)>>
                             \o web.calls
    /\ pc' = "ask_generate"
    /\ UNCHANGED <<dspy_integration, dspy_available, feedback, dspy_feedback,
                   feedback_examples, resp>>

\* lines 206-245: generation, output guardrail, response; both generators
\* return a dict for every outcome of their calls, so the except branch of
\* line 220 is not taken
AskGenerate(d, o) ==
    /\ pc = "ask_generate"
    /\ LET gen == IF dspy_integration
                  THEN generate_step_by_step_enhanced(d, o)
                  ELSE generate_step_by_step_standard(o)
       IN  /\ resp' = [endpoint |-> "ask", status |-> 200,
                       question |-> req.question,
                       source |-> req.src,
                       steps |-> [i \in DOMAIN gen.steps |->
                                     output_guardrail_text(gen.steps[i])],
                       final_answer |-> output_guardrail_text(gen.final_answer),
                       enhanced |-> gen.enhanced,
                       method |-> gen.method,
                       confidence |-> gen.confidence]
           /\ calls' = calls \o gen.calls
    /\ pc' = "idle"
    /\ UNCHANGED <<dspy_integration, dspy_available, feedback, dspy_feedback,
                   feedback_examples, req>>

AskNext ==
    \/ \E q \in AskQuestions : AskGuard(q)
    \/ \E kb \in KbOutcomes : AskSearch(kb)
    \/ \E tv \in TavilyOutcomes, wo \in WebCompletionOutcomes : AskWeb(tv, wo)
    \/ \E d \in SolverCalls : \E o \in CompletionCallsAfter(d) : AskGenerate(d, o)

-----------------------------------------------------------------------------
(* The /ask pipeline alone.  It neither reads nor writes the two tables and *)
(* the buffer, which start here as an earlier run of the process may have   *)
(* left feedback.db.                                                        *)

\* "Rating: 5/5"
F_RATING5 ==
    <<"R", "a", "t", "i", "n", "g", ":", " ", "5", "/", "5">>

StoredFeedbackRow ==
    [question |-> Q_DIGIT, answer |-> <<"4">>, rating |-> <<5>>, comment |-> <<>>]

StoredEventRow ==
    [question |-> Q_DIGIT, original_solution |-> <<"4">>, feedback_text |-> F_RATING5,
     rating |-> 5, improved_solution |-> T_PLAIN, method_used |-> "openai_improved",
     improvement_applied |-> TRUE]

\* module import: dspyfeedback imports or not; DSPy configures or not
InitConfig ==
    /\ dspy_integration \in BOOLEAN
    /\ dspy_available \in BOOLEAN
    /\ ~dspy_integration => ~dspy_available

InitAsk ==
    /\ InitConfig
    /\ \E stored \in BOOLEAN :
           /\ feedback = IF stored THEN <<StoredFeedbackRow>> ELSE <<>>
           /\ dspy_feedback = IF stored THEN <<StoredEventRow>> ELSE <<>>
    /\ feedback_examples = <<>>
    /\ pc = "idle"
    /\ req = NoRequest
    /\ calls = <<>>
    /\ resp = NoResponse

SpecAsk == InitAsk /\ [][AskNext]_vars

-----------------------------------------------------------------------------
(* input_guardrail applied to one query. *)

MaxQueryLen == 3

GuardAlphabet == {"s", "u", "m", "S", "7", " "}

\* "Integrate x dx"
Q_INTEGRATE ==
    <<"I", "n", "t", "e", "g", "r", "a", "t", "e", " ", "x", " ", "d", "x">>

\* "what is the LIMIT"
Q_LIMIT ==
    <<"w", "h", "a", "t", " ", "i", "s", " ", "t", "h", "e", " ", "L", "I", "M", "I", "T">>

GuardQueries ==
    UNION {[1..n -> GuardAlphabet] : n \in 0..MaxQueryLen}
    \cup AskQuestions \cup {Q_INTEGRATE, Q_LIMIT}

InitGuard ==
    /\ InitConfig
    /\ feedback = <<>>
    /\ dspy_feedback = <<>>
    /\ feedback_examples = <<>>
    /\ pc = "call"
    /\ req \in [op : {"input_guardrail"}, query : GuardQueries]
    /\ calls = <<>>
    /\ resp = NoResponse

ApplyGuard ==
    /\ pc = "call"
    /\ req.op = "input_guardrail"
    /\ resp' = [endpoint |-> "input_guardrail", status |-> 0,
                result |-> input_guardrail(req.query)]
    /\ pc' = "return"
    /\ UNCHANGED <<dspy_integration, dspy_available, feedback, dspy_feedback,
                   feedback_examples, req, calls>>

SpecGuard == InitGuard /\ [][ApplyGuard]_vars

-----------------------------------------------------------------------------
(* Properties of the /ask pipeline. *)

AskAnswered == pc = "idle" /\ resp.endpoint = "ask" /\ resp.status = 200

CallsNamed(names) == {i \in DOMAIN calls : calls[i].name \in names}

GenerationCalls == CallsNamed({"dspy_solver", "chat_completion"})

\* C1: a /ask request whose trimmed question the input guardrail rejects ends
\* with a 400 response, having called no vector search, web search or
\* completion, and the step that answers it writes neither table.
C1_RejectedAsk ==
    [][(req'.op = "ask" /\ ~input_guardrail(req'.question))
        => /\ pc' = "idle"
           /\ resp' = [endpoint |-> "ask", status |-> 400]
           /\ calls' = <<>>
           /\ feedback' = feedback
           /\ dspy_feedback' = dspy_feedback]_vars

C1_Witness ==
    /\ pc = "idle"
    /\ req.op = "ask"
    /\ req.question = Q_CHAT
    /\ resp.status = 400
    /\ dspy_feedback # <<>>

HasDigit(q) == \E i \in DOMAIN q : q[i] \in Digits

HasKeyword(q) ==
    \E k \in DOMAIN MATH_KEYWORDS :
        \E off \in 0..(Len(q) - Len(MATH_KEYWORDS[k])) :
            \A j \in DOMAIN MATH_KEYWORDS[k] :
                LowerChar(q[off + j]) = MATH_KEYWORDS[k][j]

\* C2: input_guardrail returns true exactly when the query holds a digit or,
\* case-insensitively as a substring, a keyword of MATH_KEYWORDS; so a query
\* with a digit is admitted and one with neither is rejected.
C2_Admit ==
    (pc = "return" /\ req.op = "input_guardrail")
        => /\ resp.result = (HasDigit(req.query) \/ HasKeyword(req.query))
           /\ HasDigit(req.query) => resp.result
           /\ (~HasDigit(req.query) /\ ~HasKeyword(req.query)) => ~resp.result

C2_Witness ==
    /\ pc = "return"
    /\ req.op = "input_guardrail"
    /\ req.query = <<"S", "u", "m">>
    /\ resp.result

\* C3: with a top result of score s for an admitted question, s >= 0.4 gives
\* the response the result's declared source ("Knowledge Base" if absent) and
\* the generator the problem text (the solution text if that is empty), with
\* no web search called; s < 0.4 gives source "web" and a web search.
C3_Routing ==
    (AskAnswered /\ req.kb_results # <<>>)
        => LET top == req.kb_results[1]
               declared == IF top.payload.source = <<>> THEN S_KB
                           ELSE top.payload.source[1]
               problem == IF top.payload.problem = <<>> THEN <<>>
                          ELSE top.payload.problem[1]
               solution == IF top.payload.solution = <<>> THEN <<>>
                           ELSE top.payload.solution[1]
               searched == CallsNamed({"search_and_generate_answer"}) # {}
           IN  IF top.score >= 400000
               THEN /\ resp.source = declared
                    /\ req.context = (IF problem # <<>> THEN problem ELSE solution)
                    /\ ~searched
               ELSE /\ resp.source = S_WEB
                    /\ searched

\* C4: when the DSPy call of the primary strategy raises, the request is
\* still answered by the generator, the completion call of the secondary
\* strategy follows it, and the answer's method is not "dspy".
C4_PrimaryRaises ==
    \A i \in DOMAIN calls :
        (pc = "idle" /\ calls[i].name = "dspy_solver" /\ ~calls[i].ok)
            => /\ resp.endpoint = "ask"
               /\ resp.status = 200
               /\ resp.method \in {"openai_fallback", "error"}
               /\ \E j \in DOMAIN calls : j > i /\ calls[j].name = "chat_completion"

C4_Witness ==
    /\ AskAnswered
    /\ \E i \in DOMAIN calls : calls[i].name = "dspy_solver" /\ ~calls[i].ok
    /\ resp.method = "openai_fallback"
    /\ resp.final_answer = <<"A", "n", "s", "w", "e", "r", ":", " ", "4">>

\* every generation call the request made raised
FailedGeneration ==
    /\ AskAnswered
    /\ GenerationCalls # {}
    /\ \A i \in GenerationCalls : ~calls[i].ok

NotRetried ==
    /\ Cardinality(CallsNamed({"chat_completion"})) = 1
    /\ Cardinality(CallsNamed({"dspy_solver"})) <= 1

\* C5 as stated: when every strategy tried fails, /ask answers 200 with
\* method "error", confidence 0.0, one step, no retry, and a final_answer that
\* is the same message for every cause and for either strategy.
C5_FixedMessage ==
    FailedGeneration
        => /\ resp.method = "error"
           /\ resp.confidence = 0
           /\ Len(resp.steps) = 1
           /\ NotRetried
           /\ \A c \in Causes :
                LET failed == [ok |-> FALSE, text |-> c]
                IN  /\ resp.final_answer = output_guardrail_text(
                            generate_step_by_step_standard(failed).final_answer)
                    /\ resp.final_answer = output_guardrail_text(
                            _solve_with_openai(failed).final_answer)

\* C5 as amended: when every strategy tried fails, /ask answers 200 with
\* method "error", confidence 0.0, one step, no retry, and a final_answer that
\* is "Could not generate solution" from the enhanced solver and the output
\* guardrail of "Service temporarily unavailable: " followed by the text of
\* the failure from the standard generator.
C5_FailureAnswer ==
    FailedGeneration
        => /\ resp.method = "error"
           /\ resp.confidence = 0
           /\ Len(resp.steps) = 1
           /\ NotRetried
           /\ LET cause == calls[Len(calls)].err
              IN  IF dspy_integration
                  THEN /\ resp.final_answer = COULD_NOT_GENERATE
                       /\ resp.steps[1] = output_guardrail_text(ERROR_PREFIX \o cause)
                  ELSE /\ resp.final_answer =
                            output_guardrail_text(SERVICE_UNAVAILABLE \o cause)
                       /\ resp.steps[1] = ERROR_CONNECTING

C5_Witness ==
    /\ FailedGeneration
    /\ ~dspy_integration
    /\ calls[Len(calls)].err = E_TIMEOUT
    /\ resp.final_answer = SERVICE_UNAVAILABLE \o E_TIMEOUT

-----------------------------------------------------------------------------
(* The improvement engine and the learning store (dspyfeedback.py). *)

MaxRows == 2

\* "Error in improvement: "
ERROR_IN_IMPROVEMENT ==
    <<"E", "r", "r", "o", "r", " ", "i", "n", " ", "i", "m", "p", "r", "o", "v", "e", "m", "e", "n", "t", ":", " ">>

\* "Could not improve solution"
COULD_NOT_IMPROVE ==
    <<"C", "o", "u", "l", "d", " ", "n", "o", "t", " ", "i", "m", "p", "r", "o", "v", "e", " ", "s", "o", "l", "u", "t", "i", "o", "n">>

\* outcomes of self.dspy_improver(...).improved_solution
ImproverOutcomes ==
    {[ok |-> TRUE, text |-> T_JOKE], [ok |-> FALSE, text |-> E_TIMEOUT]}

\* outcomes of the completion call of _improve_with_openai
ImproveCompletionOutcomes ==
    {[ok |-> TRUE, text |-> T_STEPS], [ok |-> TRUE, text |-> T_BLANK],
     [ok |-> FALSE, text |-> E_TIMEOUT]}

ImproverCalls == IF dspy_available THEN ImproverOutcomes ELSE {NotCalled}

ImproveCompletionCallsAfter(d) ==
    IF dspy_available /\ d.ok THEN {NotCalled} ELSE ImproveCompletionOutcomes

\* outcomes of a statement on feedback.db: it commits, or sqlite3 raises
DbOutcomes == BOOLEAN

\* _improve_with_openai whose except branch keeps the flag of the try branch
_improve_with_openai_flagged(o) ==
    IF o.ok
    THEN LET improved_text == Strip(o.text)
         IN  [steps |-> _parse_solution_steps(improved_text),
              final_answer |-> _extract_final_answer(improved_text),
              raw_solution |-> <<improved_text>>,
              method |-> "openai_improved",
              improvement_applied |-> TRUE,
              calls |-> <<CallOf("chat_completion", o)>>]
    ELSE [steps |-> <<ERROR_IN_IMPROVEMENT \o o.text>>,
          final_answer |-> COULD_NOT_IMPROVE,
          raw_solution |-> <<>>,
          method |-> "error",
          improvement_applied |-> TRUE,
          calls |-> <<CallOf("chat_completion", o)>>]

\* EnhancedMathSolver._improve_with_openai; raw_solution is <<>> where the
\* returned dict has no such key
_improve_with_openai(o) ==
    IF o.ok
    THEN LET improved_text == Strip(o.text)
         IN  [steps |-> _parse_solution_steps(improved_text),
              final_answer |-> _extract_final_answer(improved_text),
              raw_solution |-> <<improved_text>>,
              method |-> "openai_improved",
              improvement_applied |-> TRUE,
              calls |-> <<CallOf("chat_completion", o)>>]
    ELSE [steps |-> <<ERROR_IN_IMPROVEMENT \o o.text>>,
          final_answer |-> COULD_NOT_IMPROVE,
          raw_solution |-> <<>>,
          method |-> "error",
          improvement_applied |-> FALSE,
          calls |-> <<CallOf("chat_completion", o)>>]

\* EnhancedMathSolver.improve_with_feedback: the returned dict, and
\* feedback_examples after the call
improve_with_feedback(question, original_solution, feedback_text, d, o) ==
    IF dspy_available /\ d.ok
    THEN [improved |-> [steps |-> _parse_solution_steps(d.text),
                        final_answer |-> _extract_final_answer(d.text),
                        raw_solution |-> <<d.text>>,
                        method |-> "dspy_improved",
                        improvement_applied |-> TRUE,
                        calls |-> <<CallOf("dspy_improver", d)>>],
          examples |-> Append(feedback_examples,
                              [question |-> question, original |-> original_solution,
                               feedback |-> feedback_text, improved |-> d.text])]
    ELSE LET r == _improve_with_openai(o)
         IN  [improved |-> [r EXCEPT !.calls =
                               (IF dspy_available THEN <<CallOf("dspy_improver", d)>>
                                ELSE <<>>) \o @],
              examples |-> feedback_examples]

\* process_feedback writing a row only for an improvement that was applied
process_feedback_applied_only(question, original_solution, feedback_text, rating, d, o, db) ==
    LET imp == improve_with_feedback(question, original_solution, feedback_text, d, o)
        improved == imp.improved
        row == [question |-> question,
                original_solution |-> original_solution,
                feedback_text |-> feedback_text,
                rating |-> rating,
                improved_solution |-> DictGet(improved.raw_solution, <<>>),
                method_used |-> improved.method,
                improvement_applied |-> improved.improvement_applied]
    IN  [raised |-> ~db,
         improved |-> improved,
         table |-> IF db /\ improved.improvement_applied
                   THEN Append(dspy_feedback, row) ELSE dspy_feedback,
         examples |-> imp.examples,
         calls |-> Append(improved.calls, Call("insert_dspy_feedback", db, <<>>))]

\* SimpleFeedbackSystem.process_feedback: whether it raised, the dict it
\* returns otherwise, and the table, the buffer and the calls after it
process_feedback(question, original_solution, feedback_text, rating, d, o, db) ==
    LET imp == improve_with_feedback(question, original_solution, feedback_text, d, o)
        improved == imp.improved
        row == [question |-> question,
                original_solution |-> original_solution,
                feedback_text |-> feedback_text,
                rating |-> rating,
                improved_solution |-> DictGet(improved.raw_solution, <<>>),
                method_used |-> improved.method,
                improvement_applied |-> improved.improvement_applied]
    IN  [raised |-> ~db,
         improved |-> improved,
         table |-> IF db THEN Append(dspy_feedback, row) ELSE dspy_feedback,
         examples |-> imp.examples,
         calls |-> Append(improved.calls, Call("insert_dspy_feedback", db, <<>>))]

RECURSIVE SumOf(_, _)
\* SUM(rating) over the rows at the positions in idx
SumOf(table, idx) ==
    IF idx = {} THEN 0
    ELSE LET i == CHOOSE j \in idx : TRUE
         IN  table[i].rating + SumOf(table, idx \ {i})

\* round(total / count, 2), in hundredths; a tie goes to the even hundredth
Round2(total, count) ==
    LET n == 100 * total
        q == n \div count
        r == n % count
    IN  IF 2 * r < count THEN q
        ELSE IF 2 * r > count THEN q + 1
        ELSE IF q % 2 = 0 THEN q ELSE q + 1

\* get_stats averaging the rating over every row
get_stats_all_rows ==
    LET applied == {i \in DOMAIN dspy_feedback : dspy_feedback[i].improvement_applied}
        count == Cardinality(applied)
        rows == Len(dspy_feedback)
        methods == {dspy_feedback[i].method_used : i \in DOMAIN dspy_feedback}
    IN  [total_improvements |-> count,
         average_rating |-> IF rows = 0 THEN 0
                            ELSE Round2(SumOf(dspy_feedback, DOMAIN dspy_feedback), rows),
         methods_used |-> [m \in methods |->
                              Cardinality({i \in DOMAIN dspy_feedback :
                                              dspy_feedback[i].method_used = m})],
         dspy_available |-> dspy_available,
         learning_active |-> count > 0]

\* SimpleFeedbackSystem.get_stats
get_stats ==
    LET applied == {i \in DOMAIN dspy_feedback : dspy_feedback[i].improvement_applied}
        count == Cardinality(applied)
        methods == {dspy_feedback[i].method_used : i \in DOMAIN dspy_feedback}
    IN  [total_improvements |-> count,
         average_rating |-> IF count = 0 THEN 0 ELSE Round2(SumOf(dspy_feedback, applied), count),
         methods_used |-> [m \in methods |->
                              Cardinality({i \in DOMAIN dspy_feedback :
                                              dspy_feedback[i].method_used = m})],
         dspy_available |-> dspy_available,
         learning_active |-> count > 0]

-----------------------------------------------------------------------------
(* POST /feedback, POST /improve-solution, GET /learning-metrics (main.py). *)

\* "4"
A_FOUR == <<"4">>

\* "show more steps"
C_MORE ==
    <<"s", "h", "o", "w", " ", "m", "o", "r", "e", " ", "s", "t", "e", "p", "s">>

\* FeedbackIn bodies; rating and comment are <<>> when None
FeedbackBodies ==
    {[question |-> Q_DIGIT, answer |-> A_FOUR, rating |-> <<>>, comment |-> <<>>],
     [question |-> Q_DIGIT, answer |-> A_FOUR, rating |-> <<0>>, comment |-> <<T_EMPTY>>],
     [question |-> Q_DIGIT, answer |-> A_FOUR, rating |-> <<5>>, comment |-> <<>>],
     [question |-> Q_DIGIT, answer |-> A_FOUR, rating |-> <<>>, comment |-> <<C_MORE>>]}

\* /improve-solution bodies; a key is <<>> when the body does not hold it
ImproveBodies ==
    {[question |-> <<Q_DIGIT>>, original_solution |-> <<A_FOUR>>, feedback |-> <<C_MORE>>],
     [question |-> <<>>, original_solution |-> <<A_FOUR>>, feedback |-> <<C_MORE>>],
     [question |-> <<Q_DIGIT>>, original_solution |-> <<T_EMPTY>>, feedback |-> <<C_MORE>>],
     [question |-> <<Q_DIGIT>>, original_solution |-> <<A_FOUR>>, feedback |-> <<>>]}

\* bool(x) of an optional int
TruthyInt(x) == x # <<>> /\ x[1] # 0

\* bool(x) of an optional str
TruthyText(x) == x # <<>> /\ x[1] # <<>>

DigitChars == <<"0", "1", "2", "3", "4", "5", "6", "7", "8", "9">>

RECURSIVE IntText(_)
\* str(n) of an int
IntText(n) ==
    IF n < 0 THEN <<"-">> \o IntText(-n)
    ELSE IF n < 10 THEN <<DigitChars[n + 1]>>
    ELSE IntText(n \div 10) \o <<DigitChars[(n % 10) + 1]>>

\* "Rating: "
RATING_PREFIX ==
    <<"R", "a", "t", "i", "n", "g", ":", " ">>

\* "/5"
RATING_SUFFIX ==
    <<"/", "5">>

\* lines 320-326: the standard feedback response
StandardFeedbackOut ==
    [endpoint |-> "feedback", status |-> 200,
     body |-> [status |-> "ok",
               enhanced |-> dspy_integration,
               improvement_applied |-> FALSE,
               method_used |-> "standard",
               improved_steps |-> <<>>]]

\* the handlers take a request only while the stores have room
StoresHaveRoom ==
    /\ Len(feedback) < MaxRows
    /\ Len(dspy_feedback) < MaxRows
    /\ Len(feedback_examples) < MaxRows

\* receive_enhanced_feedback deciding on the presence of rating or comment,
\* not on their truth value
SubmitFeedbackOnPresence(f, db) ==
    /\ pc = "idle"
    /\ StoresHaveRoom
    /\ req' = [op |-> "feedback", f |-> f]
    /\ calls' = <<Call("insert_feedback", db, <<>>)>>
    /\ IF ~db
       THEN /\ feedback' = feedback
            /\ resp' = [endpoint |-> "feedback", status |-> 500]
            /\ pc' = "idle"
       ELSE /\ feedback' = Append(feedback, f)
            /\ IF dspy_integration /\ (f.rating # <<>> \/ f.comment # <<>>)
               THEN /\ resp' = NoResponse
                    /\ pc' = "feedback_improve"
               ELSE /\ resp' = StandardFeedbackOut
                    /\ pc' = "idle"
    /\ UNCHANGED <<dspy_integration, dspy_available, dspy_feedback, feedback_examples>>

\* lines 276-288, 319-330: the raw row, then the decision to improve
SubmitFeedback(f, db) ==
    /\ pc = "idle"
    /\ StoresHaveRoom
    /\ req' = [op |-> "feedback", f |-> f]
    /\ calls' = <<Call("insert_feedback", db, <<>>)>>
    /\ IF ~db
       THEN /\ feedback' = feedback
            /\ resp' = [endpoint |-> "feedback", status |-> 500]
            /\ pc' = "idle"
       ELSE /\ feedback' = Append(feedback, f)
            /\ IF dspy_integration /\ (TruthyInt(f.rating) \/ TruthyText(f.comment))
               THEN /\ resp' = NoResponse
                    /\ pc' = "feedback_improve"
               ELSE /\ resp' = StandardFeedbackOut
                    /\ pc' = "idle"
    /\ UNCHANGED <<dspy_integration, dspy_available, dspy_feedback, feedback_examples>>

\* receive_enhanced_feedback without its inner try: a failed improvement
\* reaches the outer handler
FeedbackImproveSurfaced(d, o, db) ==
    /\ pc = "feedback_improve"
    /\ LET f == req.f
           feedback_text == IF TruthyText(f.comment) THEN f.comment[1]
                            ELSE RATING_PREFIX \o IntText(f.rating[1]) \o RATING_SUFFIX
           rating == IF TruthyInt(f.rating) THEN f.rating[1] ELSE 3
           result == process_feedback(f.question, f.answer, feedback_text, rating, d, o, db)
       IN  /\ dspy_feedback' = result.table
           /\ feedback_examples' = result.examples
           /\ calls' = calls \o result.calls
           /\ resp' = IF result.raised THEN [endpoint |-> "feedback", status |-> 500]
                      ELSE [endpoint |-> "feedback", status |-> 200,
                            body |-> [status |-> "ok",
                                      enhanced |-> TRUE,
                                      improvement_applied |->
                                          result.improved.improvement_applied,
                                      method_used |-> result.improved.method,
                                      improved_steps |-> <<result.improved.steps>>]]
    /\ pc' = "idle"
    /\ UNCHANGED <<dspy_integration, dspy_available, feedback, req>>

\* lines 289-326: process_feedback and the response
FeedbackImprove(d, o, db) ==
    /\ pc = "feedback_improve"
    /\ LET f == req.f
           feedback_text == IF TruthyText(f.comment) THEN f.comment[1]
                            ELSE RATING_PREFIX \o IntText(f.rating[1]) \o RATING_SUFFIX
           rating == IF TruthyInt(f.rating) THEN f.rating[1] ELSE 3
           result == process_feedback(f.question, f.answer, feedback_text, rating, d, o, db)
       IN  /\ dspy_feedback' = result.table
           /\ feedback_examples' = result.examples
           /\ calls' = calls \o result.calls
           /\ resp' = IF result.raised THEN StandardFeedbackOut
                      ELSE [endpoint |-> "feedback", status |-> 200,
                            body |-> [status |-> "ok",
                                      enhanced |-> TRUE,
                                      improvement_applied |->
                                          result.improved.improvement_applied,
                                      method_used |-> result.improved.method,
                                      improved_steps |-> <<result.improved.steps>>]]
    /\ pc' = "idle"
    /\ UNCHANGED <<dspy_integration, dspy_available, feedback, req>>

\* lines 378-388: the two 400s
ImproveValidate(r) ==
    /\ pc = "idle"
    /\ StoresHaveRoom
    /\ calls' = <<>>
    /\ LET question == DictGet(r.question, <<>>)
           original_solution == DictGet(r.original_solution, <<>>)
           feedback_text == DictGet(r.feedback, <<>>)
       IN  /\ req' = [op |-> "improve", question |-> question,
                      original_solution |-> original_solution,
                      feedback |-> feedback_text]
           /\ IF \/ ~dspy_integration
                 \/ question = <<>> \/ original_solution = <<>> \/ feedback_text = <<>>
              THEN /\ resp' = [endpoint |-> "improve", status |-> 400]
                   /\ pc' = "idle"
              ELSE /\ resp' = NoResponse
                   /\ pc' = "improve_process"
    /\ UNCHANGED <<dspy_integration, dspy_available, feedback, dspy_feedback,
                   feedback_examples>>

\* lines 390-406: process_feedback with rating 3, the response or the 500
ImproveProcess(d, o, db) ==
    /\ pc = "improve_process"
    /\ LET result == process_feedback(req.question, req.original_solution,
                                      req.feedback, 3, d, o, db)
       IN  /\ dspy_feedback' = result.table
           /\ feedback_examples' = result.examples
           /\ calls' = calls \o result.calls
           /\ resp' = IF result.raised THEN [endpoint |-> "improve", status |-> 500]
                      ELSE [endpoint |-> "improve", status |-> 200,
                            body |-> [improved_steps |-> result.improved.steps,
                                      final_answer |-> result.improved.final_answer,
                                      method |-> result.improved.method,
                                      improvement_applied |->
                                          result.improved.improvement_applied]]
    /\ pc' = "idle"
    /\ UNCHANGED <<dspy_integration, dspy_available, feedback, req>>

\* lines 370-376: the fallback metrics
FallbackMetrics ==
    [total_improvements |-> 0, average_rating |-> 0, learning_active |-> FALSE,
     methods_used |-> <<>>, dspy_available |-> FALSE]

\* lines 352-376: get_learning_metrics
LearningMetrics(db) ==
    /\ pc = "idle"
    /\ req' = [op |-> "learning_metrics"]
    /\ calls' = IF dspy_integration THEN <<Call("select_dspy_feedback", db, <<>>)>>
                ELSE <<>>
    /\ resp' = [endpoint |-> "learning_metrics", status |-> 200,
                body |-> IF dspy_integration /\ db
                         THEN LET stats == get_stats
                              IN  [total_improvements |-> stats.total_improvements,
                                   average_rating |-> stats.average_rating,
                                   learning_active |-> stats.learning_active,
                                   methods_used |-> stats.methods_used,
                                   dspy_available |-> stats.dspy_available]
                         ELSE FallbackMetrics]
    /\ pc' = "idle"
    /\ UNCHANGED <<dspy_integration, dspy_available, feedback, dspy_feedback,
                   feedback_examples>>

FeedbackNext ==
    \/ \E f \in FeedbackBodies, db \in DbOutcomes : SubmitFeedback(f, db)
    \/ \E d \in ImproverCalls : \E o \in ImproveCompletionCallsAfter(d) :
           \E db \in DbOutcomes : FeedbackImprove(d, o, db)
    \/ \E r \in ImproveBodies : ImproveValidate(r)
    \/ \E d \in ImproverCalls : \E o \in ImproveCompletionCallsAfter(d) :
           \E db \in DbOutcomes : ImproveProcess(d, o, db)
    \/ \E db \in DbOutcomes : LearningMetrics(db)

\* a fresh feedback.db
InitFeedback ==
    /\ InitConfig
    /\ feedback = <<>>
    /\ dspy_feedback = <<>>
    /\ feedback_examples = <<>>
    /\ pc = "idle"
    /\ req = NoRequest
    /\ calls = <<>>
    /\ resp = NoResponse

SpecFeedback == InitFeedback /\ [][FeedbackNext]_vars

-----------------------------------------------------------------------------
(* The whole service. *)

Init == InitFeedback

Next == AskNext \/ FeedbackNext

Spec == Init /\ [][Next]_vars

-----------------------------------------------------------------------------
(* get_stats applied to a stored table. *)

MaxStatRows == 3

StatRatings == {1, 3, 5}

\* the rows process_feedback writes, as far as get_stats reads them
StatRows ==
    {[question |-> Q_DIGIT, original_solution |-> A_FOUR, feedback_text |-> C_MORE,
      rating |-> r, improved_solution |-> T_EMPTY, method_used |-> m,
      improvement_applied |-> (m # "error")] :
        r \in StatRatings, m \in {"dspy_improved", "openai_improved", "error"}}

InitStats ==
    /\ InitConfig
    /\ feedback = <<>>
    /\ dspy_feedback \in UNION {[1..n -> StatRows] : n \in 0..MaxStatRows}
    /\ feedback_examples = <<>>
    /\ pc = "idle"
    /\ req = NoRequest
    /\ calls = <<>>
    /\ resp = NoResponse

SpecStats == InitStats /\ [][\E db \in DbOutcomes : LearningMetrics(db)]_vars

-----------------------------------------------------------------------------
(* Properties of the feedback pipeline. *)

\* a step that runs process_feedback
ProcessStep == pc \in {"feedback_improve", "improve_process"}

\* the insert of the process_feedback call that a step made committed
Inserted == calls'[Len(calls')].ok

IsPrefix(a, b) == Len(a) <= Len(b) /\ SubSeq(b, 1, Len(a)) = a

\* the method and the flag that the response of a step reports
ReportedMethod ==
    IF resp'.endpoint = "feedback" THEN resp'.body.method_used ELSE resp'.body.method

\* C6 as stated: every process_feedback call adds exactly one row to
\* dspy_feedback, carrying the method and the flag of the returned answer, and
\* leaves the earlier rows as they were.
C6_EveryCallRecords ==
    [][ProcessStep
        => /\ Len(dspy_feedback') = Len(dspy_feedback) + 1
           /\ IsPrefix(dspy_feedback, dspy_feedback')
           /\ resp'.status = 200
           /\ dspy_feedback'[Len(dspy_feedback')].method_used = ReportedMethod
           /\ dspy_feedback'[Len(dspy_feedback')].improvement_applied =
                  resp'.body.improvement_applied]_vars

\* C6 as amended: every process_feedback call whose insert commits adds
\* exactly one row, carrying the method and the flag of the answer it returns;
\* a call whose insert raises adds none and returns no answer; either way the
\* earlier rows are as they were.
C6_CommittedCallRecords ==
    [][ProcessStep
        => /\ IsPrefix(dspy_feedback, dspy_feedback')
           /\ IF Inserted
              THEN /\ Len(dspy_feedback') = Len(dspy_feedback) + 1
                   /\ resp'.status = 200
                   /\ dspy_feedback'[Len(dspy_feedback')].method_used = ReportedMethod
                   /\ dspy_feedback'[Len(dspy_feedback')].improvement_applied =
                          resp'.body.improvement_applied
              ELSE /\ dspy_feedback' = dspy_feedback
                   /\ resp' \in {StandardFeedbackOut,
                                 [endpoint |-> "improve", status |-> 500]}]_vars

C6_Witness ==
    /\ pc = "idle"
    /\ req.op = "improve"
    /\ resp.status = 200
    /\ resp.body.method = "error"
    /\ Len(dspy_feedback) = 2
    /\ dspy_feedback[1].method_used = "dspy_improved"
    /\ dspy_feedback[2].method_used = "error"
    /\ ~dspy_feedback[2].improvement_applied

\* a step that takes a /feedback submission
SubmitStep == pc = "idle" /\ req'.op = "feedback"

\* C7 as stated: every /feedback submission commits one row to the feedback
\* table before any improvement call; the row stays and the response is "ok"
\* even when the improvement or its insert fails.
C7_EverySubmissionStored ==
    [][/\ SubmitStep
          => /\ feedback' = Append(feedback, req'.f)
             /\ calls' = <<Call("insert_feedback", TRUE, <<>>)>>
       /\ pc = "feedback_improve"
          => /\ feedback' = feedback
             /\ resp'.status = 200
             /\ resp'.body.status = "ok"]_vars

\* C7 as amended: every /feedback submission whose insert into the feedback
\* table commits has committed that one row before any improvement call, and
\* the row stays and the response is "ok" even when the improvement or its
\* insert fails; a submission whose insert raises answers 500, stores nothing
\* and attempts no improvement.  No step removes or changes a stored row.
C7_RawRowFirst ==
    [][/\ (SubmitStep /\ calls'[1].ok)
          => /\ feedback' = Append(feedback, req'.f)
             /\ calls' = <<Call("insert_feedback", TRUE, <<>>)>>
             /\ pc' = "idle" => (resp'.status = 200 /\ resp'.body.status = "ok")
       /\ (SubmitStep /\ ~calls'[1].ok)
          => /\ feedback' = feedback
             /\ calls' = <<Call("insert_feedback", FALSE, <<>>)>>
             /\ pc' = "idle"
             /\ resp' = [endpoint |-> "feedback", status |-> 500]
       /\ pc = "feedback_improve"
          => /\ calls[1] = Call("insert_feedback", TRUE, <<>>)
             /\ feedback[Len(feedback)] = req.f
             /\ feedback' = feedback
             /\ pc' = "idle"
             /\ resp'.status = 200
             /\ resp'.body.status = "ok"
       /\ IsPrefix(feedback, feedback')]_vars

C7_Witness ==
    /\ pc = "idle"
    /\ req.op = "feedback"
    /\ Len(calls) > 1
    /\ ~calls[Len(calls)].ok
    /\ resp.status = 200
    /\ resp.body.status = "ok"
    /\ Len(feedback) = 2
    /\ feedback[2] = req.f

\* the method of the improvement that the calls of a step computed
ComputedMethod ==
    IF \E i \in DOMAIN calls' : calls'[i].name = "dspy_improver" /\ calls'[i].ok
    THEN "dspy_improved"
    ELSE IF \E i \in DOMAIN calls' : calls'[i].name = "chat_completion" /\ calls'[i].ok
    THEN "openai_improved"
    ELSE "error"

\* C8: when the insert into dspy_feedback raises, process_feedback still
\* returns the improvement it computed: /improve-solution answers without an
\* HTTP error and /feedback reports the flag and the method of that
\* improvement.
C8_RecordNeverFails ==
    [][(ProcessStep /\ ~Inserted)
        => /\ resp'.status = 200
           /\ ReportedMethod = ComputedMethod
           /\ resp'.body.improvement_applied = (ComputedMethod # "error")]_vars

\* text that the output guardrail lets through unchanged
Clean(t) ==
    /\ Strip(t) # <<>>
    /\ \A b \in DOMAIN banned : ~Contains(Lower(t), banned[b])

\* C9: in every successful response of /ask, /feedback (improved_steps) and
\* /improve-solution (improved_steps, final_answer), each step and the final
\* answer is an output of the output guardrail: not blank and holding no
\* banned substring.
C9_Sanitized ==
    (pc = "idle" /\ resp.status = 200)
        => /\ resp.endpoint = "ask"
              => /\ \A i \in DOMAIN resp.steps : Clean(resp.steps[i])
                 /\ Clean(resp.final_answer)
           /\ (resp.endpoint = "feedback" /\ resp.body.improved_steps # <<>>)
              => \A i \in DOMAIN resp.body.improved_steps[1] :
                     Clean(resp.body.improved_steps[1][i])
           /\ resp.endpoint = "improve"
              => /\ \A i \in DOMAIN resp.body.improved_steps :
                        Clean(resp.body.improved_steps[i])
                 /\ Clean(resp.body.final_answer)

\* the ratings of the rows of dspy_feedback with improvement_applied, added up
RECURSIVE AppliedRatingSum(_)
AppliedRatingSum(n) ==
    IF n = 0 THEN 0
    ELSE AppliedRatingSum(n - 1)
         + (IF dspy_feedback[n].improvement_applied THEN dspy_feedback[n].rating ELSE 0)

RowsWith(m) == {i \in DOMAIN dspy_feedback : dspy_feedback[i].method_used = m}

AppliedRows == {i \in DOMAIN dspy_feedback : dspy_feedback[i].improvement_applied}

\* C10: the statistics that get_stats returns are the number of rows with
\* improvement_applied, the mean rating of those rows to the nearest hundredth
\* (0.0 when there are none) and, for each method_used of any row, the number
\* of rows with it; no rows give 0, 0.0 and {}, one applied row of rating 3
\* gives 3.0.
C10_Stats ==
    (resp.endpoint = "learning_metrics" /\ calls # <<>> /\ calls[1].ok)
        => LET body == resp.body
               n == Cardinality(AppliedRows)
               total == AppliedRatingSum(Len(dspy_feedback))
               off == 100 * total - body.average_rating * n
           IN  /\ body.total_improvements = n
               /\ n = 0 => body.average_rating = 0
               /\ n > 0 => (2 * off <= n /\ -2 * off <= n)
               /\ DOMAIN body.methods_used =
                      {dspy_feedback[i].method_used : i \in DOMAIN dspy_feedback}
               /\ \A m \in DOMAIN body.methods_used :
                      body.methods_used[m] = Cardinality(RowsWith(m))
               /\ dspy_feedback = <<>>
                  => (body.total_improvements = 0 /\ body.methods_used = <<>>)
               /\ (Len(dspy_feedback) = 1 /\ n = 1 /\ dspy_feedback[1].rating = 3)
                  => body.average_rating = 300

C10_Witness ==
    /\ resp.endpoint = "learning_metrics"
    /\ calls # <<>>
    /\ calls[1].ok
    /\ Len(dspy_feedback) = 3
    /\ dspy_feedback[1].method_used = "dspy_improved"
    /\ dspy_feedback[2].method_used = "openai_improved"
    /\ resp.body.total_improvements = 3
    /\ resp.body.average_rating = 367
    /\ resp.body.methods_used["openai_improved"] = 2

-----------------------------------------------------------------------------
(* Error handling of the /ask router. *)

\* C11: when search_qdrant raises for an admitted question, the request goes
\* on as with no results: the source is "web", search_and_generate_answer is
\* called next, generation follows it, and the response is a 200 with source
\* "web".
C11_SearchFails ==
    \A i \in DOMAIN calls :
        (calls[i].name = "search_qdrant" /\ ~calls[i].ok)
            => /\ pc \in {"ask_web", "ask_generate", "idle"}
               /\ req.kb_results = <<>>
               /\ req.src = S_WEB
               /\ pc # "ask_web"
                  => /\ Len(calls) > i
                     /\ calls[i + 1].name = "search_and_generate_answer"
               /\ pc = "idle"
                  => /\ AskAnswered
                     /\ resp.source = S_WEB
                     /\ \E j \in GenerationCalls : j > i + 1

C11_Witness ==
    /\ AskAnswered
    /\ calls[1] = Call("search_qdrant", FALSE, <<>>)
    /\ resp.source = S_WEB
    /\ resp.method = "dspy"

\* the web search of the request did not produce an answer text: the search
\* request raised, answered another status or no snippet, or the completion
\* that follows it failed
WebSearchFailed ==
    /\ CallsNamed({"tavily_search"}) # {}
    /\ \A i \in CallsNamed({"web_completion"}) : ~calls[i].ok

\* C12: on the web route, when the web search fails, the context handed to
\* the generator is the empty string.
C12_EmptyContextOnFailure ==
    (pc \in {"ask_generate", "idle"} /\ WebSearchFailed) => req.context = <<>>

-----------------------------------------------------------------------------
(* Outcomes of the improvement engine. *)

\* the outcome of improve_with_feedback for the outcomes d, o of its calls
ImproveOutcomeOk(d, o) ==
    LET r == improve_with_feedback(Q_DIGIT, A_FOUR, C_MORE, d, o).improved
        primary == dspy_available /\ d.ok
    IN  /\ primary => (r.method = "dspy_improved" /\ r.improvement_applied)
        /\ (~primary /\ o.ok) => (r.method = "openai_improved" /\ r.improvement_applied)
        /\ (~primary /\ ~o.ok)
           => /\ r.method = "error"
              /\ ~r.improvement_applied
              /\ r.steps = <<ERROR_IN_IMPROVEMENT \o o.text>>
        /\ r.method \in {"dspy_improved", "openai_improved", "error"}
        /\ r.improvement_applied <=> r.method # "error"

\* C13: improve_with_feedback returns one of three outcomes: applied with the
\* method of the primary strategy ("dspy_improved") when the DSPy improver
\* succeeds; applied with the method of the secondary strategy
\* ("openai_improved") when the improver is unavailable or raises and the
\* completion succeeds; not applied, method "error" and one step holding the
\* failure when both fail.  The flag is true exactly when the method is not
\* "error", and a failed strategy gives a returned answer, not an exception.
C13_ImproveOutcomes ==
    [][ProcessStep
        => /\ \A d \in ImproverCalls :
                \A o \in ImproveCompletionCallsAfter(d) : ImproveOutcomeOk(d, o)
           /\ Inserted
              => /\ ReportedMethod = ComputedMethod
                 /\ resp'.body.improvement_applied = (ComputedMethod # "error")
                 /\ (resp'.endpoint = "improve" /\ ComputedMethod = "error")
                    => Len(resp'.body.improved_steps) = 1]_vars

C13_Witness ==
    /\ pc = "idle"
    /\ resp.endpoint = "improve"
    /\ resp.status = 200
    /\ resp.body.method = "error"
    /\ ~resp.body.improvement_applied
    /\ Len(resp.body.improved_steps) = 1
    /\ calls[1] = Call("dspy_improver", FALSE, E_TIMEOUT)
    /\ calls[2] = Call("chat_completion", FALSE, E_TIMEOUT)

-----------------------------------------------------------------------------
(* output_guardrail_text applied to one text, and to its own result. *)

MaxTextLen == 3

SanitizeAlphabet == {"s", "e", "x", "S", "X", " ", "\n"}

\* "A Love Letter"
T_LOVE ==
    <<"A", " ", "L", "o", "v", "e", " ", "L", "e", "t", "t", "e", "r">>

\* "geoPOLITICS"
T_POLITICS ==
    <<"g", "e", "o", "P", "O", "L", "I", "T", "I", "C", "S">>

\* "  x = 2 "
T_PADDED ==
    <<" ", " ", "x", " ", "=", " ", "2", " ">>

SanitizeTexts ==
    UNION {[1..n -> SanitizeAlphabet] : n \in 0..MaxTextLen}
    \cup {UNANSWERABLE, MATH_ONLY, T_JOKE, T_LOVE, T_POLITICS, T_PADDED, T_STEPS, T_BLANK}

InitSanitize ==
    /\ InitConfig
    /\ feedback = <<>>
    /\ dspy_feedback = <<>>
    /\ feedback_examples = <<>>
    /\ pc = "call"
    /\ req \in [op : {"output_guardrail_text"}, text : SanitizeTexts]
    /\ calls = <<>>
    /\ resp = NoResponse

ApplySanitize ==
    /\ pc = "call"
    /\ req.op = "output_guardrail_text"
    /\ resp' = [endpoint |-> "output_guardrail_text", status |-> 0,
                result |-> output_guardrail_text(req.text)]
    /\ pc' = "return"
    /\ UNCHANGED <<dspy_integration, dspy_available, feedback, dspy_feedback,
                   feedback_examples, req, calls>>

ApplySanitizeAgain ==
    /\ pc = "return"
    /\ req.op = "output_guardrail_text"
    /\ resp' = [endpoint |-> "output_guardrail_text_twice", status |-> 0,
                first |-> resp.result,
                result |-> output_guardrail_text(resp.result)]
    /\ pc' = "returned"
    /\ UNCHANGED <<dspy_integration, dspy_available, feedback, dspy_feedback,
                   feedback_examples, req, calls>>

SpecSanitize == InitSanitize /\ [][ApplySanitize \/ ApplySanitizeAgain]_vars

IsBlank(t) == \A i \in DOMAIN t : t[i] \in Whitespace

HasBanned(t) ==
    \E b \in DOMAIN banned :
        \E off \in 0..(Len(t) - Len(banned[b])) :
            \A j \in DOMAIN banned[b] : LowerChar(t[off + j]) = banned[b][j]

\* C14: output_guardrail_text returns the fixed "could not be answered"
\* message for an empty or whitespace-only text, the fixed mathematics-only
\* message for a text holding a banned substring in any letter case, and the
\* text itself, unchanged, otherwise.
C14_Sanitize ==
    (pc = "return" /\ resp.endpoint = "output_guardrail_text")
        => /\ IsBlank(req.text) => resp.result = UNANSWERABLE
           /\ (~IsBlank(req.text) /\ HasBanned(req.text)) => resp.result = MATH_ONLY
           /\ (~IsBlank(req.text) /\ ~HasBanned(req.text)) => resp.result = req.text
           /\ UNANSWERABLE # MATH_ONLY

C14_Witness ==
    /\ pc = "return"
    /\ req.text = <<"S", "e", "X">>
    /\ resp.result = MATH_ONLY

\* C15: output_guardrail_text applied to its own result returns that result,
\* for every text and for both fixed messages.
C15_Idempotent ==
    /\ (pc = "returned" /\ resp.endpoint = "output_guardrail_text_twice")
           => resp.result = resp.first
    /\ output_guardrail_text(UNANSWERABLE) = UNANSWERABLE
    /\ output_guardrail_text(MATH_ONLY) = MATH_ONLY

C15_Witness ==
    /\ pc = "returned"
    /\ req.text = T_LOVE
    /\ resp.first = MATH_ONLY
    /\ resp.result = MATH_ONLY

-----------------------------------------------------------------------------
(* Validation of /improve-solution. *)

\* a step that takes a /improve-solution request
ImproveStep == pc = "idle" /\ req'.op = "improve"

\* C16: /improve-solution answers 400, calls no improvement and writes no
\* dspy_feedback row, whenever question, original_solution or feedback is
\* missing or empty, and whenever DSPy was unavailable at process start.
C16_ImproveRejected ==
    [][(ImproveStep /\ (\/ req'.question = <<>>
                        \/ req'.original_solution = <<>>
                        \/ req'.feedback = <<>>
                        \/ ~dspy_available))
        => /\ resp' = [endpoint |-> "improve", status |-> 400]
           /\ pc' = "idle"
           /\ calls' = <<>>
           /\ dspy_feedback' = dspy_feedback]_vars

-----------------------------------------------------------------------------
(* Shape of the /ask answer. *)

\* C17: every 200 response of /ask carries at least one step and a non-empty
\* final_answer, whichever route and whichever generator or parse path
\* produced it.
C17_AnswerShape ==
    AskAnswered => (Len(resp.steps) >= 1 /\ resp.final_answer # <<>>)

-----------------------------------------------------------------------------
(* Concurrent requests on feedback.db: process_feedback inserts by other
   request threads, each on its own connection, while one thread runs
   get_stats.  A statement of one connection sees the rows that were
   committed before it ran. *)

MaxWriters == 2

Writers == 1..MaxWriters

\* "SELECT COUNT(*), AVG(rating) ... WHERE improvement_applied = TRUE" on the
\* committed table; avg is <<>> for NULL
select_count_avg(table) ==
    LET applied == {i \in DOMAIN table : table[i].improvement_applied}
        count == Cardinality(applied)
    IN  [count |-> count,
         avg |-> IF count = 0 THEN <<>> ELSE <<Round2(SumOf(table, applied), count)>>]

\* "SELECT method_used, COUNT(*) ... GROUP BY method_used" on the committed
\* table, as dict(cur.fetchall())
select_method_counts(table) ==
    [m \in {table[i].method_used : i \in DOMAIN table} |->
        Cardinality({i \in DOMAIN table : table[i].method_used = m})]

\* req holds the locals of the threads: stats of the get_stats thread (<<>>
\* before its first fetchone, with the number of rows committed at that
\* moment kept beside it) and, for each writer, where it is and its row
InitConcurrent ==
    /\ dspy_integration = TRUE
    /\ dspy_available \in BOOLEAN
    /\ feedback = <<>>
    /\ dspy_feedback \in {<<>>, <<StoredEventRow>>}
    /\ feedback_examples = <<>>
    /\ pc = "call"
    /\ req = [op |-> "get_stats", stats |-> <<>>,
              writers |-> [w \in Writers |-> [at |-> "connect", row |-> <<>>]]]
    /\ calls = <<>>
    /\ resp = NoResponse

\* process_feedback, lines 291-300: connect and INSERT; the row is pending in
\* the connection's transaction, and one connection at a time holds the
\* write lock
RecordInsert(w, row) ==
    /\ req.op = "get_stats"
    /\ req.writers[w].at = "connect"
    /\ \A v \in Writers : req.writers[v].at # "inserted"
    /\ req' = [req EXCEPT !.writers[w] = [at |-> "inserted", row |-> <<row>>]]
    /\ UNCHANGED <<dspy_integration, dspy_available, feedback, dspy_feedback,
                   feedback_examples, pc, calls, resp>>

\* process_feedback, lines 302-303: commit and close
RecordCommit(w) ==
    /\ req.op = "get_stats"
    /\ req.writers[w].at = "inserted"
    /\ dspy_feedback' = Append(dspy_feedback, req.writers[w].row[1])
    /\ req' = [req EXCEPT !.writers[w].at = "closed"]
    /\ calls' = Append(calls, Call("insert_dspy_feedback", TRUE, <<>>))
    /\ UNCHANGED <<dspy_integration, dspy_available, feedback, feedback_examples,
                   pc, resp>>

\* get_stats, lines 309-313: connect, first SELECT, fetchone
StatsSelectCount ==
    /\ pc = "call"
    /\ req.op = "get_stats"
    /\ req' = [req EXCEPT !.stats = <<[row |-> select_count_avg(dspy_feedback),
                                       committed |-> Len(dspy_feedback)]>>]
    /\ pc' = "select_methods"
    /\ calls' = Append(calls, Call("select_count_avg", TRUE, <<>>))
    /\ UNCHANGED <<dspy_integration, dspy_available, feedback, dspy_feedback,
                   feedback_examples, resp>>

\* get_stats, lines 315-326: second SELECT, fetchall, close, the dict
StatsSelectMethods ==
    /\ pc = "select_methods"
    /\ req.op = "get_stats"
    /\ LET stats == req.stats[1].row
           methods == select_method_counts(dspy_feedback)
       IN  resp' = [endpoint |-> "get_stats", status |-> 0,
                    body |-> [total_improvements |-> stats.count,
                              average_rating |-> DictGet(stats.avg, 0),
                              methods_used |-> methods,
                              dspy_available |-> dspy_available,
                              learning_active |-> stats.count > 0]]
    /\ pc' = "return"
    /\ calls' = Append(calls, Call("select_method_counts", TRUE, <<>>))
    /\ UNCHANGED <<dspy_integration, dspy_available, feedback, dspy_feedback,
                   feedback_examples, req>>

ConcurrentNext ==
    \/ \E w \in Writers : \E row \in StatRows : RecordInsert(w, row)
    \/ \E w \in Writers : RecordCommit(w)
    \/ StatsSelectCount
    \/ StatsSelectMethods

SpecConcurrent == InitConcurrent /\ [][ConcurrentNext]_vars

RECURSIVE SumCounts(_)
\* the counts of a methods_used mapping, added up
SumCounts(counts) ==
    IF DOMAIN counts = {} THEN 0
    ELSE LET m == CHOOSE k \in DOMAIN counts : TRUE
         IN  counts[m] + SumCounts([k \in DOMAIN counts \ {m} |-> counts[k]])

\* C18: with process_feedback inserts interleaved with one get_stats call, a
\* pending insert is not visible, and total_improvements, average_rating and
\* methods_used of the returned statistics are those of one committed state
\* of dspy_feedback; the counts of methods_used add up to the number of rows
\* committed when total_improvements was read.
C18_Snapshot ==
    (pc = "return" /\ resp.endpoint = "get_stats")
        => /\ \E n \in 0..Len(dspy_feedback) :
                LET T == SubSeq(dspy_feedback, 1, n)
                    row == select_count_avg(T)
                IN  /\ resp.body.total_improvements = row.count
                    /\ resp.body.average_rating = DictGet(row.avg, 0)
                    /\ resp.body.methods_used = select_method_counts(T)
           /\ SumCounts(resp.body.methods_used) = req.stats[1].committed

-----------------------------------------------------------------------------
(* Parse paths of the standard generator. *)

\* the text is a JSON object holding both "steps" and "final_answer"
WellFormedPayload(text) ==
    /\ JsonValid(text)
    /\ JsonLoads(text).is_dict
    /\ JsonLoads(text).has_steps
    /\ JsonLoads(text).has_final

\* the /ask response is the one the standard generator gives for outcome o
ProducedBy(o) ==
    LET gen == generate_step_by_step_standard(o)
    IN  /\ resp.method = gen.method
        /\ resp.confidence = gen.confidence
        /\ resp.steps = [i \in DOMAIN gen.steps |-> output_guardrail_text(gen.steps[i])]
        /\ resp.final_answer = output_guardrail_text(gen.final_answer)

\* C19: in the standard generator, a completion that succeeds with a text
\* that is not a JSON object of the two fields gives an answer (no exception)
\* of exactly one step, with the step equal to the final_answer, method
\* "standard_fallback" and a confidence below that of a parsed payload.
C19_FallbackParse ==
    (AskAnswered /\ ~dspy_integration)
        => \A o \in CompletionOutcomes :
               (o.ok /\ ~WellFormedPayload(Strip(o.text)) /\ ProducedBy(o))
                   => /\ Len(resp.steps) = 1
                      /\ resp.steps[1] = resp.final_answer
                      /\ resp.method = "standard_fallback"
                      /\ resp.confidence
                             < generate_step_by_step_standard(
                                   [ok |-> TRUE, text |-> T_JSON]).confidence

-----------------------------------------------------------------------------
(* _parse_solution_steps applied to one text. *)

MaxParseLines == 3

\* lines of a solution text: with a cue, with a cue in capitals, without a
\* cue, padded, empty, blank
ParseLineSet ==
    {<<"S", "t", "e", "p", " ", "1">>, <<"N", "E", "X", "T", " ", "b">>, <<"x", " ", "=", " ", "2">>, <<" ", "y", " ">>, <<>>, <<" ", " ">>}

RECURSIVE JoinWith(_, _)
\* sep.join(parts)
JoinWith(parts, sep) ==
    IF parts = <<>> THEN <<>>
    ELSE IF Len(parts) = 1 THEN parts[1]
    ELSE parts[1] \o sep \o JoinWith(Tail(parts), sep)

ParseTexts ==
    {JoinWith(ls, <<"\n">>) : ls \in UNION {[1..n -> ParseLineSet] : n \in 1..MaxParseLines}}

InitParse ==
    /\ InitConfig
    /\ feedback = <<>>
    /\ dspy_feedback = <<>>
    /\ feedback_examples = <<>>
    /\ pc = "call"
    /\ req \in [op : {"_parse_solution_steps"}, text : ParseTexts]
    /\ calls = <<>>
    /\ resp = NoResponse

ApplyParse ==
    /\ pc = "call"
    /\ req.op = "_parse_solution_steps"
    /\ resp' = [endpoint |-> "_parse_solution_steps", status |-> 0,
                result |-> _parse_solution_steps(req.text)]
    /\ pc' = "return"
    /\ UNCHANGED <<dspy_integration, dspy_available, feedback, dspy_feedback,
                   feedback_examples, req, calls>>

SpecParse == InitParse /\ [][ApplyParse]_vars

\* the non-blank lines of a text, each trimmed
NonBlankLines(text) ==
    LET lines == Split(text, "\n")
    IN  SelectSeq([i \in DOMAIN lines |-> Strip(lines[i])], LAMBDA line : line # <<>>)

IsCue(line) ==
    \E k \in DOMAIN step_indicators :
        \E off \in 0..(Len(line) - Len(step_indicators[k])) :
            \A j \in DOMAIN step_indicators[k] :
                LowerChar(line[off + j]) = step_indicators[k][j]

\* the lines that begin a step: the first one and every cue line
StepStarts(nb) == {i \in DOMAIN nb : i = 1 \/ IsCue(nb[i])}

StepEnd(nb, s) ==
    LET later == {t \in StepStarts(nb) : t > s}
    IN  IF later = {} THEN Len(nb)
        ELSE (CHOOSE t \in later : \A u \in later : t <= u) - 1

\* the steps are the runs of non-blank lines from one start to the next, the
\* lines of a run joined by one space
StepsAreRuns(nb, result) ==
    /\ Len(result) = Cardinality(StepStarts(nb))
    /\ \A s \in StepStarts(nb) :
           result[Cardinality({t \in StepStarts(nb) : t <= s})]
               = JoinWith(SubSeq(nb, s, StepEnd(nb, s)), <<" ">>)

TwoCuesThenPlain(nb) ==
    Len(nb) = 3 /\ IsCue(nb[1]) /\ IsCue(nb[2]) /\ ~IsCue(nb[3])

NoCue(nb) == \A i \in DOMAIN nb : ~IsCue(nb[i])

ParseReturned == pc = "return" /\ resp.endpoint = "_parse_solution_steps"

\* C20 as stated: the parser takes the non-blank lines in order, a cue line
\* starts a step and any other line is appended to the current one; two cue
\* lines and then a line without a cue give two steps; a text with no cue on
\* any line gives one step, the trimmed input.
C20_TrimmedInput ==
    ParseReturned
        => LET nb == NonBlankLines(req.text)
           IN  /\ nb # <<>> => StepsAreRuns(nb, resp.result)
               /\ TwoCuesThenPlain(nb) => Len(resp.result) = 2
               /\ NoCue(nb) => resp.result = <<Strip(req.text)>>

\* C20 as amended: as above, except that a text with no cue on any line gives
\* one step made of its non-blank lines, each trimmed, joined by one space,
\* which is the trimmed input when there is one such line, and the text as
\* given when there is none.
C20_StepParser ==
    ParseReturned
        => LET nb == NonBlankLines(req.text)
           IN  /\ nb # <<>> => StepsAreRuns(nb, resp.result)
               /\ TwoCuesThenPlain(nb) => Len(resp.result) = 2
               /\ (NoCue(nb) /\ nb # <<>>) => resp.result = <<JoinWith(nb, <<" ">>)>>
               /\ (NoCue(nb) /\ Len(nb) = 1) => resp.result = <<Strip(req.text)>>
               /\ nb = <<>> => resp.result = <<req.text>>

C20_Witness ==
    /\ ParseReturned
    /\ req.text = <<"S", "t", "e", "p", " ", "1", "\n", "N", "E", "X", "T", " ", "b", "\n", " ", "y", " ">>
    /\ resp.result = <<<<"S", "t", "e", "p", " ", "1">>, <<"N", "E", "X", "T", " ", "b", " ", "y">>>>

-----------------------------------------------------------------------------
(* When /feedback attempts an improvement. *)

\* the engine is there and the submission has a rating other than 0 or a
\* comment other than ""
CarriesContent(f) ==
    /\ dspy_integration
    /\ \/ f.rating \notin {<<>>, <<0>>}
       \/ f.comment \notin {<<>>, <<T_EMPTY>>}

\* a step of /feedback leaves the improvement side as it was
ImprovementUntouched ==
    /\ dspy_feedback' = dspy_feedback
    /\ feedback_examples' = feedback_examples
    /\ \A i \in DOMAIN calls' :
           calls'[i].name \notin {"dspy_improver", "chat_completion", "insert_dspy_feedback"}

\* C21 as stated: /feedback attempts an improvement, and writes a
\* dspy_feedback row, only when the engine is available and the submission has
\* a non-zero rating or a non-empty comment; otherwise it writes exactly one
\* feedback row, leaves dspy_feedback and feedback_examples unchanged and
\* answers "ok", improvement_applied false, method_used "standard", no
\* improved_steps.
C21_OnlyWithContent ==
    [][/\ (SubmitStep /\ pc' = "feedback_improve") => CarriesContent(req'.f)
       /\ (req'.op = "feedback" /\ ~ImprovementUntouched)
          => (pc = "feedback_improve" /\ CarriesContent(req.f))
       /\ (SubmitStep /\ ~CarriesContent(req'.f))
          => /\ feedback' = Append(feedback, req'.f)
             /\ ImprovementUntouched
             /\ pc' = "idle"
             /\ resp' = [endpoint |-> "feedback", status |-> 200,
                         body |-> [status |-> "ok",
                                   enhanced |-> dspy_integration,
                                   improvement_applied |-> FALSE,
                                   method_used |-> "standard",
                                   improved_steps |-> <<>>]]]_vars

\* C21 as amended: as above, where "otherwise" is a submission whose insert
\* into the feedback table commits; a submission whose insert raises writes
\* no row at all, attempts no improvement and answers 500.
C21_ImprovesOnlyWithContent ==
    [][/\ (SubmitStep /\ pc' = "feedback_improve") => CarriesContent(req'.f)
       /\ (req'.op = "feedback" /\ ~ImprovementUntouched)
          => (pc = "feedback_improve" /\ CarriesContent(req.f))
       /\ (SubmitStep /\ ~CarriesContent(req'.f) /\ calls'[1].ok)
          => /\ feedback' = Append(feedback, req'.f)
             /\ ImprovementUntouched
             /\ pc' = "idle"
             /\ resp' = [endpoint |-> "feedback", status |-> 200,
                         body |-> [status |-> "ok",
                                   enhanced |-> dspy_integration,
                                   improvement_applied |-> FALSE,
                                   method_used |-> "standard",
                                   improved_steps |-> <<>>]]
       /\ (SubmitStep /\ ~calls'[1].ok)
          => /\ feedback' = feedback
             /\ ImprovementUntouched
             /\ pc' = "idle"
             /\ resp' = [endpoint |-> "feedback", status |-> 500]]_vars

C21_Witness ==
    /\ pc = "idle"
    /\ dspy_integration
    /\ req.op = "feedback"
    /\ req.f.rating = <<0>>
    /\ req.f.comment = <<T_EMPTY>>
    /\ calls = <<Call("insert_feedback", TRUE, <<>>)>>
    /\ resp.status = 200
    /\ resp.body.method_used = "standard"
    /\ resp.body.improved_steps = <<>>
    /\ Len(feedback) = 2
    /\ feedback[2] = req.f
    /\ dspy_feedback # <<>>

====
